---------------------------- MODULE Spec2Model ----------------------------
(***************************************************************************)
(* A model of the baseline JPEG decoder of i1011/my_jpeg (package jpeg):   *)
(* the marker loop of JPEG.decode with its segment parsers and its         *)
(* entropy-coded-segment extraction, the block decoder of decode_ecs, the  *)
(* canonical Huffman table, upsample and ycbcr2bgr.                        *)
(*                                                                         *)
(* Bytes are the integers 0..255 and a bytes object is a sequence of them. *)
(* A Python exception is the name of its class in err; None is the string  *)
(* "None" for img and -1 inside a Huffman node.  The sample values that    *)
(* decode_ecs writes into the raster (dequantization, IDCT, level shift)   *)
(* are not modelled: img only records whether a raster was produced.       *)
(***************************************************************************)
EXTENDS Integers, Sequences, FiniteSets, TLC

VARIABLES
    \* JPEG.decode: the stream, the loop position and the locals
    data, pos, pc, err, marker, segment, img,
    \* JPEG.__init__: the table/parameter store
    qts, dcs, acs, csp, P, Y, X, scan,
    \* JPEG.decode_ecs: the ScanParam list, the BitStream, the loop counters
    \* and the coefficient list of the block being decoded
    scanp, bits, offset, mcu, pidx, blk, c,
    \* history: the DC differences decoded so far, per scan entry, and the
    \* stream position at which the latest extraction loop started
    diffs, ecsStart,
    \* HuffmanTable: the bucket lists given, the table built, the symbols read back
    ht, table, decoded,
    \* upsample and ycbcr2bgr: argument and result
    uin, uout, cin, cout

vars == << data, pos, pc, err, marker, segment, img,
           qts, dcs, acs, csp, P, Y, X, scan,
           scanp, bits, offset, mcu, pidx, blk, c, diffs, ecsStart,
           ht, table, decoded, uin, uout, cin, cout >>

decodeVars == << data, pos, marker, segment, img, ecsStart >>
storeVars  == << qts, dcs, acs, csp, P, Y, X, scan >>
ecsVars    == << scanp, bits, offset, mcu, pidx, blk, c, diffs >>
huffVars   == << ht, table, decoded >>
imageVars  == << uin, uout, cin, cout >>

---------------------------------------------------------------------------
(* Bounds of the model.                                                    *)

\* longest byte tail that follows a framed prefix
MaxTail == 4
\* most chunks the extraction loop may append to its list
MaxChunks == 6
\* longest entropy-coded segment handed to the block decoder on its own
MaxEcsLen == 2
\* most symbols in one code-length bucket, and the longest code length used
MaxBucket == 3
MaxCodeLen == 2
\* largest block side and replication factor given to upsample
MaxDim == 2
MaxFactor == 3

---------------------------------------------------------------------------
(* Helpers.                                                                *)

Min(a, b) == IF a < b THEN a ELSE b
Max(a, b) == IF a > b THEN a ELSE b

RECURSIVE Pow2(_)
Pow2(n) == IF n <= 0 THEN 1 ELSE 2 * Pow2(n - 1)

\* a dict: a function with a finite domain
EmptyDict == [k \in {} |-> 0]
Put(d, k, v) == [x \in (DOMAIN d) \cup {k} |-> IF x = k THEN v ELSE d[x]]

Zeros(n) == [i \in 1..n |-> 0]

RECURSIVE SumSeq(_)
SumSeq(s) == IF s = << >> THEN 0 ELSE Head(s) + SumSeq(Tail(s))

\* b''.join(chunks)
RECURSIVE Join(_)
Join(chunks) == IF chunks = << >> THEN << >> ELSE Head(chunks) \o Join(Tail(chunks))

\* BytesIO.read(n) at position p, n >= 0: at most n bytes, fewer at the end
Read(d, p, n) == SubSeq(d, p + 1, Min(p + n, Len(d)))

---------------------------------------------------------------------------
(* decoder.py: markers and field checks.                                   *)

MARKERS == [ SOI  |-> <<255, 216>>, APP0 |-> <<255, 224>>, DQT |-> <<255, 219>>,
             SOF0 |-> <<255, 192>>, DHT  |-> <<255, 196>>, SOS |-> <<255, 218>>,
             EOI  |-> <<255, 217>>, COM  |-> <<255, 254>> ]

InMarkersMap(m) == \E k \in DOMAIN MARKERS : MARKERS[k] = m
MARKERS_MAP(m) == CHOOSE k \in DOMAIN MARKERS : MARKERS[k] = m

\* divmod(b, 0x10)
unpack_int4(b) == << b \div 16, b % 16 >>

ensure_range(value, min_value, max_value) == min_value <= value /\ value <= max_value
ensure_set(value, st) == value \in st
\* ensure_eos on a stream over d at position p: TRUE when nothing is left
ensure_eos(d, p) == Read(d, p, 1) = << >>

---------------------------------------------------------------------------
(* misc.py: BitStream.                                                     *)

\* BitStream.read: [bit, offset]; past the end the bit is 0 and the offset stays
BitRead(d, off) ==
    IF off \div 8 >= Len(d) THEN [bit |-> 0, offset |-> off]
    ELSE [bit |-> (d[off \div 8 + 1] \div Pow2(7 - (off % 8))) % 2, offset |-> off + 1]

RECURSIVE read_n_loop(_, _, _, _)
read_n_loop(d, off, n, ret) ==
    IF n = 0 THEN [val |-> ret, offset |-> off]
    ELSE LET r == BitRead(d, off)
         IN  read_n_loop(d, r.offset, n - 1, ret * 2 + r.bit)

read_n(d, off, n) == read_n_loop(d, off, n, 0)

read_signed(d, off, n) ==
    IF n <= 0 THEN [val |-> 0, offset |-> off]
    ELSE LET r == read_n(d, off, n)
         IN  IF r.val \div Pow2(n - 1) = 0
             THEN [val |-> r.val - (Pow2(n) - 1), offset |-> r.offset]
             ELSE r

---------------------------------------------------------------------------
(* misc.py: HuffmanTable.  A node is [z, o, sym]: the indices in nodes of  *)
(* child-0 and child-1 and the symbol, -1 for None.  The root is node 1.   *)

None == -1
NewNode == [z |-> None, o |-> None, sym |-> None]
\* the node [0, 0, 0] that __init__ appends for every length and never links
SpareNode == [z |-> 0, o |-> 0, sym |-> 0]

Child(node, t) == IF t = 0 THEN node.z ELSE node.o
SetChild(node, t, i) == IF t = 0 THEN [node EXCEPT !.z = i] ELSE [node EXCEPT !.o = i]

\* the digits of acc in base 2, most significant first ("" for 0 is "0")
RECURSIVE Binary(_)
Binary(n) == IF n < 2 THEN << n >> ELSE Append(Binary(n \div 2), n % 2)

\* f'{acc:0{w}b}': padded with zeros to w digits, longer when acc needs more
Format(acc, w) ==
    LET b == Binary(acc)
    IN  IF Len(b) >= w THEN b ELSE Zeros(w - Len(b)) \o b

RECURSIVE insert_walk(_, _, _, _)
insert_walk(nodes, cur, code, sym) ==
    IF code = << >> THEN [nodes EXCEPT ![cur].sym = sym]
    ELSE LET t == Head(code)
         IN  IF Child(nodes[cur], t) = None
             THEN LET grown == Append([nodes EXCEPT ![cur] = SetChild(@, t, Len(nodes) + 1)],
                                      NewNode)
                  IN  insert_walk(grown, Len(nodes) + 1, Tail(code), sym)
             ELSE insert_walk(nodes, Child(nodes[cur], t), Tail(code), sym)

insert_sym(nodes, code, sym) == insert_walk(nodes, 1, code, sym)

\* the loops of __init__: L is the 0-based length index, k the place in ht[L];
\* codes lists the (code, symbol) pairs in the order they are inserted
RECURSIVE HuffmanBuild(_, _, _, _, _, _)
HuffmanBuild(h, L, k, acc, nodes, codes) ==
    IF k > Len(h[L + 1])
    THEN IF L = 15 THEN [nodes |-> nodes, codes |-> codes]
         ELSE HuffmanBuild(h, L + 1, 1, acc * 2, Append(nodes, SpareNode), codes)
    ELSE LET code == Format(acc, L + 1)
             x == h[L + 1][k]
         IN  HuffmanBuild(h, L, k + 1, acc + 1, insert_sym(nodes, code, x),
                          Append(codes, << code, x >>))

HuffmanTable(h) == HuffmanBuild(h, 0, 1, 0, << NewNode, SpareNode >>, << >>)

\* HuffmanTable.next: [sym, offset, err]; walking into None raises TypeError
RECURSIVE next_walk(_, _, _, _)
next_walk(nodes, cur, d, off) ==
    IF cur = None THEN [sym |-> None, offset |-> off, err |-> "TypeError"]
    ELSE IF nodes[cur].sym # None THEN [sym |-> nodes[cur].sym, offset |-> off, err |-> ""]
    ELSE LET r == BitRead(d, off)
         IN  next_walk(nodes, Child(nodes[cur], r.bit), d, r.offset)

next(t, d, off) == next_walk(t.nodes, 1, d, off)

---------------------------------------------------------------------------
(* decoder.py: the segment parsers.  Each runs over its own BytesIO and    *)
(* returns err ("" when it returns normally) with the store fields it has  *)
(* written by then.  unpack on fewer bytes than its format raises          *)
(* struct.error.                                                           *)

RECURSIVE dqt_loop(_, _, _)
dqt_loop(seg, off, q) ==
    LET PqTq == Read(seg, off, 1)
    IN  IF PqTq = << >>
        THEN [err |-> IF ensure_eos(seg, off) THEN "" ELSE "JPEGDecodeError", qts |-> q]
        ELSE LET Pq == unpack_int4(PqTq[1])[1]
                 Tq == unpack_int4(PqTq[1])[2]
                 Q  == Read(seg, off + 1, 64)
             IN  IF Pq # 0 THEN [err |-> "JPEGDecodeError", qts |-> q]
                 ELSE IF Len(Q) # 64 THEN [err |-> "struct.error", qts |-> q]
                 ELSE dqt_loop(seg, off + 65, Put(q, Tq, Q))

dqt(seg, q) == dqt_loop(seg, 0, q)

\* the component loop of sof0: k components are still to be read
RECURSIVE sof0_loop(_, _, _, _)
sof0_loop(seg, off, k, cs) ==
    IF k = 0 THEN [err |-> "", csp |-> cs, off |-> off]
    ELSE LET b == Read(seg, off, 3)
         IN  IF Len(b) # 3 THEN [err |-> "struct.error", csp |-> cs, off |-> off]
             ELSE LET C  == b[1]
                      H  == b[2] \div 16
                      V  == b[2] % 16
                      Tq == b[3]
                  IN  IF ~ ensure_set(H, {1, 2, 4}) \/ ~ ensure_set(V, {1, 2, 4})
                      THEN [err |-> "JPEGDecodeError", csp |-> cs, off |-> off + 3]
                      ELSE sof0_loop(seg, off + 3, k - 1,
                                     Put(cs, C, [H |-> H, V |-> V, Tq |-> Tq]))

sof0(seg, cs, p0, y0, x0) ==
    LET b == Read(seg, 0, 6)
        keep(e, c1) == [err |-> e, csp |-> c1, P |-> p0, Y |-> y0, X |-> x0]
    IN  IF Len(b) # 6 THEN keep("struct.error", cs)
        ELSE LET Pb == b[1]
                 Yb == b[2] * 256 + b[3]
                 Xb == b[4] * 256 + b[5]
                 Nf == b[6]
             IN  IF Pb # 8 THEN keep("JPEGDecodeError", cs)
                 ELSE IF Nf # 3 THEN keep("JPEGDecodeError", cs)
                 ELSE LET r == sof0_loop(seg, 6, Nf, cs)
                      IN  IF r.err # "" THEN keep(r.err, r.csp)
                          ELSE [err |-> IF ensure_eos(seg, r.off) THEN "" ELSE "JPEGDecodeError",
                                csp |-> r.csp, P |-> Pb, Y |-> Yb, X |-> Xb]

\* V = [unpack('B' * L[i], stream.read(L[i])) for i in range(16)], from i on
RECURSIVE dht_lists(_, _, _, _, _)
dht_lists(seg, off, L, i, V) ==
    IF i > 16 THEN [err |-> "", V |-> V, off |-> off]
    ELSE LET b == Read(seg, off, L[i])
         IN  IF Len(b) # L[i] THEN [err |-> "struct.error", V |-> V, off |-> off]
             ELSE dht_lists(seg, off + L[i], L, i + 1, Append(V, b))

RECURSIVE dht_loop(_, _, _, _)
dht_loop(seg, off, dc, ac) ==
    LET TcTh == Read(seg, off, 1)
    IN  IF TcTh = << >>
        THEN [err |-> IF ensure_eos(seg, off) THEN "" ELSE "JPEGDecodeError",
              dcs |-> dc, acs |-> ac]
        ELSE LET Tc == unpack_int4(TcTh[1])[1]
                 Th == unpack_int4(TcTh[1])[2]
                 L  == Read(seg, off + 1, 16)
             IN  IF ~ ensure_range(Tc, 0, 1)
                 THEN [err |-> "JPEGDecodeError", dcs |-> dc, acs |-> ac]
                 ELSE IF Len(L) # 16 THEN [err |-> "struct.error", dcs |-> dc, acs |-> ac]
                 ELSE LET r == dht_lists(seg, off + 17, L, 1, << >>)
                      IN  IF r.err # "" THEN [err |-> r.err, dcs |-> dc, acs |-> ac]
                          ELSE IF Tc = 0
                               THEN dht_loop(seg, r.off, Put(dc, Th, HuffmanTable(r.V)), ac)
                               ELSE dht_loop(seg, r.off, dc, Put(ac, Th, HuffmanTable(r.V)))

dht(seg, dc, ac) == dht_loop(seg, 0, dc, ac)

\* the component loop of sos: k entries are still to be read
RECURSIVE sos_loop(_, _, _, _)
sos_loop(seg, off, k, sc) ==
    IF k = 0 THEN [err |-> "", scan |-> sc, off |-> off]
    ELSE LET b == Read(seg, off, 2)
         IN  IF Len(b) # 2 THEN [err |-> "struct.error", scan |-> sc, off |-> off]
             ELSE sos_loop(seg, off + 2, k - 1,
                           Append(sc, [Cs |-> b[1], Td |-> b[2] \div 16, Ta |-> b[2] % 16]))

sos(seg, sc) ==
    LET b == Read(seg, 0, 1)
    IN  IF Len(b) # 1 THEN [err |-> "struct.error", scan |-> sc]
        ELSE LET r == sos_loop(seg, 1, b[1], sc)
                 \* stream.read(3): Ss, Se, Ah/Al, not looked at, however many came
                 after == r.off + Len(Read(seg, r.off, 3))
             IN  IF r.err # "" THEN [err |-> r.err, scan |-> r.scan]
                 ELSE [err |-> IF ensure_eos(seg, after) THEN "" ELSE "JPEGDecodeError",
                       scan |-> r.scan]

---------------------------------------------------------------------------
(* decoder.py: JPEG.__init__ and the idle values of the other parts.       *)

StoreInit ==
    /\ qts = EmptyDict /\ dcs = EmptyDict /\ acs = EmptyDict /\ csp = EmptyDict
    /\ P = 8 /\ Y = -1 /\ X = -1
    /\ scan = << >>

EcsIdle ==
    /\ scanp = << >> /\ bits = << >> /\ offset = 0
    /\ mcu = 0 /\ pidx = 0 /\ blk = 0 /\ c = << >> /\ diffs = << >>

HuffIdle == ht = << >> /\ table = [nodes |-> << >>, codes |-> << >>] /\ decoded = << >>

ImageIdle == uin = << >> /\ uout = << >> /\ cin = << >> /\ cout = << >>

\* raise: the decode ends with the exception e
Raise(e) == pc' = "error" /\ err' = e

---------------------------------------------------------------------------
(* decoder.py: JPEG.decode, the marker loop.                               *)

\* a variant of expect_bytes that compares only the bytes that were read
expect_bytes_read_only(q, p) == \A i \in 1..Len(q) : i <= Len(p) /\ q[i] = p[i]

\* __expect_bytes(p): TRUE when the bytes read are the ones expected
expect_bytes(q, p) == q = p

\* __expect_bytes(MARKERS['SOI'])
ExpectSOI ==
    /\ pc = "start"
    /\ LET q == Read(data, pos, 2)
       IN  /\ pos' = pos + Len(q)
           /\ IF expect_bytes(q, MARKERS.SOI)
              THEN pc' = "header" /\ err' = err
              ELSE Raise("JPEGDecodeError")
    /\ UNCHANGED << data, marker, segment, img, ecsStart >>
    /\ UNCHANGED << storeVars, ecsVars, huffVars, imageVars >>

\* marker = stream.read(2) and the checks up to "if marker == 'EOI': break"
ReadMarker ==
    /\ pc = "header"
    /\ LET m == Read(data, pos, 2)
       IN  /\ pos' = pos + Len(m)
           /\ IF ~ InMarkersMap(m)
              THEN Raise("JPEGDecodeError") /\ marker' = marker
              ELSE /\ marker' = MARKERS_MAP(m)
                   /\ IF marker' = "SOI" THEN Raise("JPEGDecodeError")
                      ELSE /\ pc' = IF marker' = "EOI" THEN "eoi" ELSE "segment"
                           /\ err' = err
    /\ UNCHANGED << data, segment, img, ecsStart >>
    /\ UNCHANGED << storeVars, ecsVars, huffVars, imageVars >>

\* what the parser of marker m returns on seg, as a record over the whole store
Dispatch(m, seg) ==
    LET base == [err |-> "", qts |-> qts, dcs |-> dcs, acs |-> acs, csp |-> csp,
                 P |-> P, Y |-> Y, X |-> X, scan |-> scan]
    IN  CASE m = "DQT"  -> LET r == dqt(seg, qts)
                           IN  [base EXCEPT !.err = r.err, !.qts = r.qts]
          [] m = "SOF0" -> LET r == sof0(seg, csp, P, Y, X)
                           IN  [base EXCEPT !.err = r.err, !.csp = r.csp,
                                            !.P = r.P, !.Y = r.Y, !.X = r.X]
          [] m = "DHT"  -> LET r == dht(seg, dcs, acs)
                           IN  [base EXCEPT !.err = r.err, !.dcs = r.dcs, !.acs = r.acs]
          [] m = "SOS"  -> LET r == sos(seg, scan)
                           IN  [base EXCEPT !.err = r.err, !.scan = r.scan]
          [] OTHER      -> base

\* L = __read_int16(); segment = stream.read(L - 2); then the parser of the
\* marker.  readAll is what read does with a negative size: a BytesIO reads
\* to the end (TRUE), a buffered file raises ValueError for a size below -1.
ReadSegment ==
    /\ pc = "segment"
    /\ LET lb == Read(data, pos, 2)
       IN  IF Len(lb) # 2
           THEN /\ Raise("struct.error")
                /\ pos' = pos + Len(lb)
                /\ UNCHANGED << segment, storeVars >>
           ELSE LET L == lb[1] * 256 + lb[2]
                IN  \E readAll \in BOOLEAN :
                    /\ (L >= 2) => readAll
                    /\ IF L - 2 < -1 /\ ~ readAll
                       THEN /\ Raise("ValueError")
                            /\ pos' = pos + 2
                            /\ UNCHANGED << segment, storeVars >>
                       ELSE LET seg == IF L - 2 < 0 THEN Read(data, pos + 2, Len(data))
                                       ELSE Read(data, pos + 2, L - 2)
                                r == Dispatch(marker, seg)
                            IN  /\ pos' = pos + 2 + Len(seg)
                                /\ qts' = r.qts /\ dcs' = r.dcs /\ acs' = r.acs
                                /\ csp' = r.csp /\ P' = r.P /\ Y' = r.Y /\ X' = r.X
                                /\ scan' = r.scan
                                /\ IF r.err # ""
                                   THEN Raise(r.err) /\ segment' = seg
                                   ELSE IF marker = "SOS"
                                   THEN pc' = "extract" /\ err' = err /\ segment' = << >>
                                   ELSE pc' = "header" /\ err' = err /\ segment' = seg
    /\ ecsStart' = IF pc' = "extract" THEN pos' ELSE ecsStart
    /\ UNCHANGED << data, marker, img >>
    /\ UNCHANGED << ecsVars, huffVars, imageVars >>

\* a variant of Destuff that leaves the stuffed pair as it is
DestuffNothing(val) == val

\* "if val == b'\xff\x00': val = b'\xff'"
Destuff(val) == IF val = << 255, 0 >> THEN << 255 >> ELSE val

\* one turn of the loop that collects the entropy-coded bytes; segment is the
\* list of chunks appended so far
ExtractStep ==
    /\ pc = "extract"
    /\ Len(segment) < MaxChunks
    /\ LET v1 == Read(data, pos, 1)
           v2 == IF v1 = << 255 >> THEN v1 \o Read(data, pos + 1, 1) ELSE v1
           val == Destuff(v2)
       IN  IF Len(val) = 2
           THEN /\ pos' = pos + Len(v2) - 2
                /\ pc' = "ecs"
                /\ segment' = segment
           ELSE /\ pos' = pos + Len(v2)
                /\ pc' = pc
                /\ segment' = Append(segment, val)
    /\ UNCHANGED << data, err, marker, img, ecsStart >>
    /\ UNCHANGED << storeVars, ecsVars, huffVars, imageVars >>

\* after the loop: ensure_eos(stream), then None or the converted raster
Finish ==
    /\ pc = "eoi"
    /\ IF ensure_eos(data, pos)
       THEN pc' = "done" /\ err' = err /\ pos' = pos
       ELSE Raise("JPEGDecodeError") /\ pos' = pos + 1
    /\ UNCHANGED << data, marker, segment, img, ecsStart >>
    /\ UNCHANGED << storeVars, ecsVars, huffVars, imageVars >>

---------------------------------------------------------------------------
(* decoder.py: JPEG.decode_ecs.                                            *)

\* math.ceil(a / b) for a >= 0, b > 0
CeilDiv(a, b) == (a + b - 1) \div b

RECURSIVE MaxOf(_)
MaxOf(S) == LET x == CHOOSE x \in S : TRUE
            IN  IF S = {x} THEN x ELSE Max(x, MaxOf(S \ {x}))

Vmax == MaxOf({csp[k].V : k \in DOMAIN csp})
Hmax == MaxOf({csp[k].H : k \in DOMAIN csp})
MCU_Y == 8 * Vmax
MCU_X == 8 * Hmax
\* how many times the two loops over range(0, Y, MCU_Y), range(0, X, MCU_X) call decode_mcu
NumMcu == CeilDiv(Y, MCU_Y) * CeilDiv(X, MCU_X)

\* the dict lookups of the ScanParam loop all succeed
ScanLookupsOk ==
    \A i \in 1..Len(scan) :
        /\ scan[i].Cs \in DOMAIN csp
        /\ csp[scan[i].Cs].Tq \in DOMAIN qts
        /\ scan[i].Td \in DOMAIN dcs
        /\ scan[i].Ta \in DOMAIN acs

ScanParam(a) ==
    LET b == csp[a.Cs]
    IN  [Cs |-> a.Cs, H |-> b.H, V |-> b.V, qt |-> qts[b.Tq],
         dc |-> dcs[a.Td], ac |-> acs[a.Ta], dc_acc |-> 0]

\* the head of decode_ecs up to the first decode_block: sampling maxima, the
\* ScanParam list, the BitStream; with no MCU or no scan entry the loops
\* decode nothing and the raster is returned as it is
EcsBegin ==
    /\ pc = "ecs"
    /\ IF csp = EmptyDict
       THEN Raise("ValueError") /\ UNCHANGED << img, ecsVars >>
       ELSE IF ~ ScanLookupsOk
       THEN Raise("KeyError") /\ UNCHANGED << img, ecsVars >>
       ELSE /\ scanp' = [i \in 1..Len(scan) |-> ScanParam(scan[i])]
            /\ diffs' = [i \in 1..Len(scan) |-> << >>]
            /\ bits' = Join(segment)
            /\ offset' = 0
            /\ mcu' = 0 /\ blk' = 0 /\ c' = << >>
            /\ err' = err
            /\ IF NumMcu = 0 \/ scan = << >>
               THEN pc' = "header" /\ img' = "raster" /\ pidx' = 0
               ELSE pc' = "dc" /\ img' = img /\ pidx' = 1
    /\ UNCHANGED << data, pos, marker, segment, ecsStart >>
    /\ UNCHANGED << storeVars, huffVars, imageVars >>

\* a variant of AddDiff with one predictor shared by all scan entries
AddDiffShared(params, i, diff) ==
    [j \in DOMAIN params |-> [params[j] EXCEPT !.dc_acc = @ + diff]]

\* param.dc_acc += diff for the scan entry i, the others left alone
AddDiff(params, i, diff) == [params EXCEPT ![i].dc_acc = @ + diff]

\* decode_block, the DC coefficient
BlockDC ==
    /\ pc = "dc"
    /\ LET param == scanp[pidx]
           t == next(param.dc, bits, offset)
       IN  IF t.err # ""
           THEN Raise(t.err) /\ offset' = t.offset /\ UNCHANGED << scanp, c, diffs >>
           ELSE LET d == read_signed(bits, t.offset, t.sym)
                IN  /\ scanp' = AddDiff(scanp, pidx, d.val)
                    /\ c' = << scanp'[pidx].dc_acc >>
                    /\ diffs' = [diffs EXCEPT ![pidx] = Append(@, d.val)]
                    /\ offset' = d.offset
                    /\ pc' = "ac" /\ err' = err
    /\ UNCHANGED << bits, mcu, pidx, blk >>
    /\ UNCHANGED << decodeVars, storeVars, huffVars, imageVars >>

\* what one turn of the run-length loop makes of c for the AC symbol RS
RunLength(cs, RS, value) ==
    LET R == RS \div 16
        L == RS % 16
    IN  IF R = 0 /\ L = 0 THEN cs \o Zeros(64 - Len(cs))
        ELSE (cs \o Zeros(R)) \o << value >>

\* decode_block, one turn of "while len(c) < 64"
BlockAC ==
    /\ pc = "ac"
    /\ LET param == scanp[pidx]
           t == next(param.ac, bits, offset)
       IN  IF t.err # ""
           THEN Raise(t.err) /\ offset' = t.offset /\ c' = c
           ELSE LET L == t.sym % 16
                    isEob == t.sym = 0
                    v == IF isEob THEN [val |-> 0, offset |-> t.offset]
                         ELSE read_signed(bits, t.offset, L)
                IN  /\ c' = RunLength(c, t.sym, v.val)
                    /\ offset' = v.offset
                    /\ pc' = IF Len(c') < 64 THEN "ac" ELSE "end"
                    /\ err' = err
    /\ UNCHANGED << scanp, bits, mcu, pidx, blk, diffs >>
    /\ UNCHANGED << decodeVars, storeVars, huffVars, imageVars >>

\* a variant of BlockComplete that lets an overrun block through
BlockCompleteAtLeast(cs) == Len(cs) >= 64

\* "if len(c) != 64: raise": TRUE when the block is accepted
BlockComplete(cs) == Len(cs) = 64

\* decode_block from the length check on, and what decode_mcu and the MCU
\* loops do until the next decode_block or the return of the raster
BlockEnd ==
    /\ pc = "end"
    /\ LET param == scanp[pidx]
       IN  IF ~ BlockComplete(c)
           THEN Raise("JPEGDecodeError") /\ UNCHANGED << img, mcu, pidx, blk >>
           ELSE IF blk + 1 < param.V * param.H
           THEN /\ blk' = blk + 1
                /\ pc' = "dc" /\ err' = err
                /\ UNCHANGED << img, mcu, pidx >>
           \* mcu[param.Cs - 1] = upsample(...): three planes, indices -3..2
           ELSE IF param.Cs - 1 > 2
           THEN Raise("IndexError") /\ UNCHANGED << img, mcu, pidx, blk >>
           ELSE IF pidx < Len(scanp)
           THEN /\ pidx' = pidx + 1 /\ blk' = 0
                /\ pc' = "dc" /\ err' = err
                /\ UNCHANGED << img, mcu >>
           ELSE IF mcu + 1 < NumMcu
           THEN /\ mcu' = mcu + 1 /\ pidx' = 1 /\ blk' = 0
                /\ pc' = "dc" /\ err' = err
                /\ img' = img
           ELSE /\ pc' = "header" /\ err' = err
                /\ img' = "raster"
                /\ UNCHANGED << mcu, pidx, blk >>
    /\ UNCHANGED << scanp, bits, offset, c, diffs >>
    /\ UNCHANGED << data, pos, marker, segment, ecsStart >>
    /\ UNCHANGED << storeVars, huffVars, imageVars >>

---------------------------------------------------------------------------
(* The inputs of JPEG.decode: a framed prefix followed by every byte tail  *)
(* of at most MaxTail bytes.                                               *)

\* the bytes the tails are made of: 0x00, the second bytes of SOI and EOI, 0xFF
TailBytes == {0, 216, 217, 255}

RECURSIVE SeqsUpTo(_, _)
SeqsUpTo(S, n) ==
    IF n = 0 THEN {<< >>}
    ELSE LET shorter == SeqsUpTo(S, n - 1)
         IN  shorter \cup {Append(t, b) : t \in {u \in shorter : Len(u) = n - 1}, b \in S}

\* a marker, the two length bytes of a segment declaring L, no payload yet
Framing(m, L) == MARKERS[m] \o << L \div 256, L % 256 >>
\* a whole segment: the length counts its own two bytes
Seg(m, payload) == Framing(m, Len(payload) + 2) \o payload

\* one quantization table, id 0, all ones
QtPayload == << 0 >> \o [i \in 1..64 |-> 1]
\* DC table 0: codes 0 -> category 0, 10 -> category 1 (11 is left unassigned)
DcPayload == << 0, 1, 1 >> \o Zeros(14) \o << 0, 1 >>
\* AC table 0: codes 00 -> 0x00 (EOB), 01 -> 0x01, 10 -> 0xF0, 110 -> 0xE1, 111 -> 0xF1
AcPayload == << 16, 0, 3, 2 >> \o Zeros(13) \o << 0, 1, 240, 225, 241 >>
\* P = 8, Y = X = 1, three components 1..3 with H = V = 1 and table 0
Sof0Payload == << 8, 0, 1, 0, 1, 3,  1, 17, 0,  2, 17, 0,  3, 17, 0 >>
\* three scan entries on tables 0/0, then Ss, Se, Ah/Al
SosPayload == << 3,  1, 0,  2, 0,  3, 0,  0, 63, 0 >>

Headers ==
    Seg("DQT", QtPayload) \o Seg("DHT", DcPayload) \o Seg("DHT", AcPayload)
        \o Seg("SOF0", Sof0Payload)

\* the declared lengths tried in front of a tail
FramedLengths == {0, 2, 3, 6}

Prefixes ==
    { << >>, MARKERS.SOI }
    \cup { MARKERS.SOI \o Framing(m, L) :
               m \in {"APP0", "DQT", "SOF0", "DHT", "SOS"}, L \in FramedLengths }
    \cup { MARKERS.SOI \o Seg("SOS", << 0, 0, 63, 0 >>),
           MARKERS.SOI \o Seg("SOF0", Sof0Payload \o << 0 >>),
           MARKERS.SOI \o Seg("SOF0", Sof0Payload) \o Seg("SOS", SosPayload),
           MARKERS.SOI \o Headers \o Seg("SOS", SosPayload) }

Inputs == { p \o t : p \in Prefixes, t \in SeqsUpTo(TailBytes, MaxTail) }

---------------------------------------------------------------------------
(* JPEG().decode(stream) on every input.                                   *)

Init ==
    /\ data \in Inputs
    /\ pos = 0 /\ pc = "start" /\ err = "" /\ marker = "" /\ segment = << >>
    /\ img = "None" /\ ecsStart = 0
    /\ StoreInit /\ EcsIdle /\ HuffIdle /\ ImageIdle

Next ==
    \/ ExpectSOI
    \/ ReadMarker
    \/ ReadSegment
    \/ ExtractStep
    \/ EcsBegin
    \/ BlockDC
    \/ BlockAC
    \/ BlockEnd
    \/ Finish

Spec == Init /\ [][Next]_vars

---------------------------------------------------------------------------
(* JPEG.decode_ecs(segment) on its own: a store as the header segments     *)
(* leave it, and every entropy-coded segment of at most MaxEcsLen bytes.   *)

\* the 16 bucket lists of a table whose first buckets are given
Buckets(first) == first \o [i \in 1..(16 - Len(first)) |-> << >>]

\* DC: 0 -> category 0, 10 -> category 1, 110 -> category 2 (111 unassigned)
ScanDcTable == HuffmanTable(Buckets(<< << 0 >>, << 1 >>, << 2 >> >>))
\* AC: 00 -> 0x00 (EOB), 01 -> 0x01, 10 -> 0xF0, 110 -> 0xE1, 111 -> 0xF1
ScanAcTable == HuffmanTable(Buckets(<< << >>, << 0, 1, 240 >>, << 225, 241 >> >>))

\* the bytes the entropy-coded segments are made of
EcsBytes == {0, 20, 32, 85, 128, 160, 165, 192, 255}

\* the sampling factors (H, V) tried for component 1; components 2 and 3 have (1, 1)
ScanSamplings == { << 1, 1 >>, << 2, 1 >>, << 2, 2 >> }
\* the component ids of the scan entries, in scan order
ScanOrders == { << 1, 2, 3 >>, << 2, 1 >> }
\* the frame sizes (Y, X) tried
ScanFrames == { << 8, 8 >>, << 8, 9 >> }

InitScan ==
    /\ pc = "ecs" /\ err = "" /\ img = "None"
    /\ data = << >> /\ pos = 0 /\ marker = "SOS" /\ ecsStart = 0
    /\ \E e \in SeqsUpTo(EcsBytes, MaxEcsLen) : segment = [i \in 1..Len(e) |-> << e[i] >>]
    /\ qts = Put(EmptyDict, 0, [i \in 1..64 |-> 1])
    /\ dcs = Put(EmptyDict, 0, ScanDcTable)
    /\ acs = Put(EmptyDict, 0, ScanAcTable)
    /\ \E hv \in ScanSamplings :
           csp = [k \in 1..3 |-> IF k = 1 THEN [H |-> hv[1], V |-> hv[2], Tq |-> 0]
                                 ELSE [H |-> 1, V |-> 1, Tq |-> 0]]
    /\ P = 8
    /\ \E f \in ScanFrames : Y = f[1] /\ X = f[2]
    /\ \E o \in ScanOrders : scan = [i \in 1..Len(o) |-> [Cs |-> o[i], Td |-> 0, Ta |-> 0]]
    /\ EcsIdle /\ HuffIdle /\ ImageIdle

NextScan ==
    \/ EcsBegin
    \/ BlockDC
    \/ BlockAC
    \/ BlockEnd

SpecScan == InitScan /\ [][NextScan]_vars

---------------------------------------------------------------------------
(* HuffmanTable(ht) on bucket lists of distinct symbols, then next() over  *)
(* the codes it assigned, written one after the other into a BitStream.    *)

\* the symbols of the bucket lists, in list order
RECURSIVE Flatten(_)
Flatten(lists) == IF lists = << >> THEN << >> ELSE Head(lists) \o Flatten(Tail(lists))

\* the codes of the (code, symbol) pairs, one after the other
RECURSIVE CodeBits(_)
CodeBits(codes) == IF codes = << >> THEN << >> ELSE Head(codes)[1] \o CodeBits(Tail(codes))

\* the bytes whose bits, most significant first, are b followed by zeros
PackBits(b) ==
    [k \in 1..CeilDiv(Len(b), 8) |->
        LET bit(i) == IF 8 * (k - 1) + i <= Len(b) THEN b[8 * (k - 1) + i] ELSE 0
        IN  128 * bit(1) + 64 * bit(2) + 32 * bit(3) + 16 * bit(4)
              + 8 * bit(5) + 4 * bit(6) + 2 * bit(7) + bit(8)]

\* the symbol values the bucket lists are made of
HuffSymbols == {0, 1, 2, 17}

\* the sequences over S in which no element comes twice
RECURSIVE DistinctSeqs(_)
DistinctSeqs(S) ==
    {<< >>} \cup UNION { { << x >> \o q : q \in DistinctSeqs(S \ {x}) } : x \in S }

\* q cut into MaxCodeLen lists: list i ends at place cut[i], the last one at the end
SplitAt(q, cut) ==
    [i \in 1..MaxCodeLen |->
        SubSeq(q, IF i = 1 THEN 1 ELSE cut[i - 1] + 1,
                  IF i = MaxCodeLen THEN Len(q) ELSE cut[i])]

\* the first MaxCodeLen buckets: lists of at most MaxBucket symbols, no symbol twice
HuffInputs ==
    { Buckets(SplitAt(s[1], s[2])) :
          s \in { t \in DistinctSeqs(HuffSymbols) \X [1..(MaxCodeLen - 1) -> 0..Cardinality(HuffSymbols)] :
                      /\ \A i \in 1..(MaxCodeLen - 1) : t[2][i] <= Len(t[1])
                      /\ \A i \in 1..(MaxCodeLen - 2) : t[2][i] <= t[2][i + 1]
                      /\ \A i \in 1..MaxCodeLen : Len(SplitAt(t[1], t[2])[i]) <= MaxBucket } }

InitHuffman ==
    /\ ht \in HuffInputs
    /\ table = [nodes |-> << >>, codes |-> << >>] /\ decoded = << >>
    /\ pc = "build" /\ err = ""
    /\ data = << >> /\ pos = 0 /\ marker = "" /\ segment = << >> /\ img = "None"
    /\ ecsStart = 0
    /\ StoreInit /\ EcsIdle /\ ImageIdle

\* table = HuffmanTable(ht); stream = BitStream(the codes in assignment order)
HuffmanInit ==
    /\ pc = "build"
    /\ table' = HuffmanTable(ht)
    /\ bits' = PackBits(CodeBits(table'.codes))
    /\ offset' = 0
    /\ pc' = "read"
    /\ UNCHANGED << err, ht, decoded >>
    /\ UNCHANGED << scanp, mcu, pidx, blk, c, diffs >>
    /\ UNCHANGED << decodeVars, storeVars, imageVars >>

\* table.next(stream), once for every symbol given
HuffmanNext ==
    /\ pc = "read"
    /\ IF Len(decoded) = Len(Flatten(ht))
       THEN pc' = "done" /\ UNCHANGED << err, offset, decoded >>
       ELSE LET r == next(table, bits, offset)
            IN  /\ offset' = r.offset
                /\ IF r.err # "" THEN Raise(r.err) /\ decoded' = decoded
                   ELSE decoded' = Append(decoded, r.sym) /\ pc' = pc /\ err' = err
    /\ UNCHANGED << ht, table >>
    /\ UNCHANGED << scanp, bits, mcu, pidx, blk, c, diffs >>
    /\ UNCHANGED << decodeVars, storeVars, imageVars >>

NextHuffman ==
    \/ HuffmanInit
    \/ HuffmanNext

SpecHuffman == InitHuffman /\ [][NextHuffman]_vars

---------------------------------------------------------------------------
(* image.py: upsample.  A block is the sequence of its rows.               *)

\* ret = np.zeros((m * k, n)); for i in range(k): ret[i::k, :] = img
RECURSIVE upsample_v_loop(_, _, _, _)
upsample_v_loop(ret, im, k, i) ==
    IF i = k THEN ret
    ELSE upsample_v_loop(
             [r \in 1..Len(ret) |->
                 IF (r - 1) >= i /\ ((r - 1) - i) % k = 0
                 THEN im[((r - 1) - i) \div k + 1] ELSE ret[r]],
             im, k, i + 1)

\* a variant of upsample_v that writes the copies one below the other
upsample_v_stacked(im, k) ==
    [r \in 1..(Len(im) * k) |-> im[((r - 1) % Len(im)) + 1]]

upsample_v(im, k) ==
    upsample_v_loop([r \in 1..(Len(im) * k) |-> Zeros(Len(im[1]))], im, k, 0)

\* ndarray.T of a block with at least one row
Transpose(a) == [j \in 1..Len(a[1]) |-> [i \in 1..Len(a) |-> a[i][j]]]

upsample(im, kv, kh) == Transpose(upsample_v(Transpose(upsample_v(im, kv)), kh))

\* the sample values of the blocks tried
Pixels == {0, 1}

\* the block and the factors of test_upsample
TestBlock == << << 1, 2 >>, << 3, 4 >> >>

UpsampleInputs ==
    { [img |-> a, kv |-> kv, kh |-> kh] :
          a \in UNION { [1..m -> [1..n -> Pixels]] : m \in 1..MaxDim, n \in 1..MaxDim },
          kv \in 1..MaxFactor, kh \in 1..MaxFactor }
    \cup { [img |-> TestBlock, kv |-> 2, kh |-> 3] }

InitUpsample ==
    /\ uin \in UpsampleInputs
    /\ uout = << >>
    /\ pc = "call" /\ err = ""
    /\ cin = << >> /\ cout = << >>
    /\ data = << >> /\ pos = 0 /\ marker = "" /\ segment = << >> /\ img = "None"
    /\ ecsStart = 0
    /\ StoreInit /\ EcsIdle /\ HuffIdle

Upsample ==
    /\ pc = "call"
    /\ uout' = upsample(uin.img, uin.kv, uin.kh)
    /\ pc' = "done"
    /\ UNCHANGED << err, uin, cin, cout >>
    /\ UNCHANGED << decodeVars, storeVars, ecsVars, huffVars >>

NextUpsample == Upsample

SpecUpsample == InitUpsample /\ [][NextUpsample]_vars

---------------------------------------------------------------------------
(* image.py: ycbcr2bgr, and the round-and-clip of JPEG.decode.  The        *)
(* floating-point values are modelled as exact decimals, in millionths.    *)

Million == 1000000

\* ycbcr2bgr(img, shift) for one sample triple: (B, G, R) in millionths
ycbcr2bgr(s, shift) ==
    LET Ys == s[1]
        Cb == s[2] - shift
        Cr == s[3] - shift
        R == Ys * Million + 1402000 * Cr
        G == Ys * Million - 344140 * Cb - 714140 * Cr
        B == Ys * Million + 177200 * Cb
    IN  << B, G, R >>

\* np.round of v millionths: to the nearest integer, a tie to the even one
Round(v) ==
    LET lo == IF v >= 0 THEN v \div Million ELSE -((-v + Million - 1) \div Million)
        rest == v - lo * Million
    IN  IF 2 * rest < Million THEN lo
        ELSE IF 2 * rest > Million THEN lo + 1
        ELSE IF lo % 2 = 0 THEN lo ELSE lo + 1

\* np.clip(x, lo, hi)
Clip(x, lo, hi) == Max(lo, Min(x, hi))

\* img = np.clip(np.round(img), 0, 2 ** self.P - 1) for one sample triple
RoundClip(t, p) == [k \in 1..3 |-> Clip(Round(t[k]), 0, Pow2(p) - 1)]

\* the sample values tried for Y, Cb and Cr
Samples == {0, 64, 128, 192, 255}

InitColor ==
    /\ cin \in [1..3 -> Samples]
    /\ cout = << >>
    /\ pc = "call" /\ err = ""
    /\ uin = << >> /\ uout = << >>
    /\ data = << >> /\ pos = 0 /\ marker = "" /\ segment = << >> /\ img = "None"
    /\ ecsStart = 0
    /\ StoreInit /\ EcsIdle /\ HuffIdle

\* img = ycbcr2bgr(img, 2 ** (self.P - 1)), then the round and the clip
Convert ==
    /\ pc = "call"
    /\ cout' = RoundClip(ycbcr2bgr(cin, Pow2(P - 1)), P)
    /\ pc' = "done"
    /\ UNCHANGED << err, cin, uin, uout >>
    /\ UNCHANGED << decodeVars, storeVars, ecsVars, huffVars >>

NextColor == Convert

SpecColor == InitColor /\ [][NextColor]_vars

---------------------------------------------------------------------------
(* Claims about JPEG.decode, checked under Spec.                           *)

\* the length bytes at the stream position, and the payload ReadSegment hands on
DeclaredLength == Read(data, pos, 2)[1] * 256 + Read(data, pos, 2)[2]
Payload == Read(data, pos + 2, DeclaredLength - 2)

\* the bytes the tables of a DHT payload take, table after table, from off on
RECURSIVE DhtSyntax(_, _)
DhtSyntax(seg, off) ==
    IF off >= Len(seg) THEN off
    ELSE IF Len(seg) - off < 17 THEN off + 17
    ELSE LET n == 17 + SumSeq(SubSeq(seg, off + 2, off + 17))
         IN  IF off + n > Len(seg) THEN off + n ELSE DhtSyntax(seg, off + n)

\* the number of bytes the fixed syntax of segment m takes, given payload seg
SyntaxLength(m, seg) ==
    CASE m = "DQT"  -> 65 * CeilDiv(Len(seg), 65)
      [] m = "SOF0" -> IF Len(seg) < 6 THEN 6 ELSE 6 + 3 * seg[6]
      [] m = "DHT"  -> DhtSyntax(seg, 0)
      [] m = "SOS"  -> IF seg = << >> THEN 1 ELSE 1 + 2 * seg[1] + 3

\* C1: whenever the payload handed to the DQT, DHT, SOF0 or SOS parser is
\* longer or shorter than the bytes its syntax takes, the step that parses it
\* ends the decode with a JPEGDecodeError: the segment is never accepted and
\* no other exception is raised.
C1_LengthMismatchIsDecodeError ==
    [][ ( /\ pc = "segment"
          /\ marker \in {"DQT", "DHT", "SOF0", "SOS"}
          /\ Len(Read(data, pos, 2)) = 2
          /\ DeclaredLength >= 2
          /\ Len(Payload) # SyntaxLength(marker, Payload) )
        => (pc' = "error" /\ err' = "JPEGDecodeError") ]_vars

\* C2: the decode never returns normally when no frame header has been
\* processed (Y is still -1) and no scan has been decoded (img is still None).
C2_NoNormalEndBeforeFrameAndScan ==
    ~ (pc = "done" /\ Y = -1 /\ img = "None")

\* the input does not begin with 0xFF 0xD8 (it may be shorter than two bytes)
NotSOI == Read(data, 0, 2) # << 255, 216 >>

\* C3: on an input that does not begin with 0xFF 0xD8 the first step of decode
\* raises JPEGDecodeError: no marker has been read after the first two bytes
\* and the store is as __init__ left it.
C3_BadStartRejectedStoreUntouched ==
    (NotSOI /\ pc # "start")
        => /\ pc = "error" /\ err = "JPEGDecodeError"
           /\ pos <= 2 /\ marker = ""
           /\ StoreInit

\* C3 witness: a two-byte start with the right first byte and a wrong second one, rejected
C3_Witness ==
    /\ pc = "error" /\ NotSOI
    /\ Len(data) >= 2 /\ data[1] = 255

\* C8: when the input is used up inside the entropy-coded data, the next turn
\* of the extraction loop ends the decode with an error.
C8_ExtractionStopsAtEndOfInput ==
    [][ (pc = "extract" /\ pos = Len(data)) => pc' = "error" ]_vars

\* index of the first 0xFF after position from that a byte other than 0x00
\* follows; 0 when there is none
MarkerAt(d, i) == d[i] = 255 /\ i + 1 <= Len(d) /\ d[i + 1] # 0
FirstMarker(d, from) ==
    IF \E i \in (from + 1)..Len(d) : MarkerAt(d, i)
    THEN CHOOSE i \in (from + 1)..Len(d) :
             MarkerAt(d, i) /\ \A j \in (from + 1)..(i - 1) : ~ MarkerAt(d, j)
    ELSE 0

\* d[a..b] with every 0x00 that follows a 0xFF of the range left out
RECURSIVE Unstuffed(_, _, _)
Unstuffed(d, a, b) ==
    IF a > b THEN << >>
    ELSE IF d[a] = 255 /\ a < b /\ d[a + 1] = 0
         THEN << 255 >> \o Unstuffed(d, a + 2, b)
         ELSE << d[a] >> \o Unstuffed(d, a + 1, b)

\* C10: when decode_ecs is about to be called, the chunks collected are the
\* input from the end of the SOS segment up to the first 0xFF that a byte other
\* than 0x00 follows, every 0xFF 0x00 made 0xFF, and the stream stands at
\* that 0xFF, so that the next two bytes read are that marker.
C10_ExtractedBytesAndPosition ==
    pc = "ecs" =>
        LET m == FirstMarker(data, ecsStart)
        IN  /\ m # 0
            /\ Join(segment) = Unstuffed(data, ecsStart + 1, m - 1)
            /\ pos = m - 1
            /\ Read(data, pos, 2) = << 255, data[m + 1] >>

\* C10 witness: extraction has ended on an EOI marker after taking a stuffed 0xFF
C10_Witness ==
    /\ pc = "ecs"
    /\ \E i \in 1..Len(segment) : segment[i] = << 255 >>
    /\ Read(data, pos, 2) = MARKERS.EOI

---------------------------------------------------------------------------
(* Claims about decode_block, checked under SpecScan.                      *)

\* the AC symbol the next turn of the run-length loop decodes
NextAcSymbol == next(scanp[pidx].ac, bits, offset)

\* C5: a block is accepted only with exactly 64 coefficients; end-of-block
\* (RS = 0x00) keeps the coefficients decoded so far and sets all the
\* remaining ones to 0, 63 of them directly after the DC coefficient; a symbol
\* whose run and value take the count past 64 ends the loop, and the block is
\* then refused with a JPEGDecodeError.
C5_BlockHas64Coefficients ==
    [][ /\ (pc = "end" /\ pc' # "error") => Len(c) = 64
        /\ (pc = "ac" /\ NextAcSymbol.err = "" /\ NextAcSymbol.sym = 0)
               => /\ Len(c') = 64
                  /\ SubSeq(c', 1, Len(c)) = c
                  /\ \A i \in (Len(c) + 1)..64 : c'[i] = 0
        /\ ( /\ pc = "ac" /\ NextAcSymbol.err = "" /\ NextAcSymbol.sym # 0
             /\ Len(c) + (NextAcSymbol.sym \div 16) + 1 > 64 )
               => (pc' = "end" /\ Len(c') > 64)
        /\ (pc = "end" /\ Len(c) # 64)
               => (pc' = "error" /\ err' = "JPEGDecodeError" /\ img' = img)
      ]_vars

\* C5 witness: a block refused because its last symbol overran 64 coefficients
C5_Witness == pc = "error" /\ err = "JPEGDecodeError" /\ Len(c) > 64

\* C9: every scan entry has a predictor of its own that starts at 0 and is the
\* sum of the DC differences decoded in that entry's calls of decode_block so
\* far, whatever blocks of other entries were decoded in between; coefficient
\* 0 of the block being decoded is that sum.
C9_PredictorPerComponent ==
    pc \in {"dc", "ac", "end"} =>
        /\ \A i \in 1..Len(scanp) : scanp[i].dc_acc = SumSeq(diffs[i])
        /\ pc \in {"ac", "end"} => c[1] = SumSeq(diffs[pidx])

\* C9 witness: an entry decoded twice with a nonzero difference in its first
\* call, while another entry holds a different, nonzero predictor
C9_Witness ==
    /\ pc \in {"dc", "ac", "end"}
    /\ \E i, j \in 1..Len(scanp) :
           /\ i # j
           /\ Len(diffs[i]) >= 2 /\ diffs[i][1] # 0
           /\ scanp[j].dc_acc # 0 /\ scanp[j].dc_acc # scanp[i].dc_acc

---------------------------------------------------------------------------
(* Claims about HuffmanTable, checked under SpecHuffman.                   *)

IsPrefix(a, b) == Len(a) <= Len(b) /\ SubSeq(b, 1, Len(a)) = a

\* no code is the beginning of another one (nor equal to it)
PrefixFree(codes) ==
    \A i, j \in 1..Len(codes) : i # j => ~ IsPrefix(codes[i][1], codes[j][1])

\* C4: for every list of buckets the codes assigned are prefix-free, the
\* symbols given are the symbols that got a code, one code each, and next()
\* over the codes in assignment order returns the symbols in the order given.
C4_CanonicalCodesRoundTrip ==
    pc # "build" =>
        /\ PrefixFree(table.codes)
        /\ [i \in 1..Len(table.codes) |-> table.codes[i][2]] = Flatten(ht)
        /\ err = ""
        /\ IsPrefix(decoded, Flatten(ht))
        /\ pc = "done" => decoded = Flatten(ht)

---------------------------------------------------------------------------
(* Claims about upsample, checked under SpecUpsample.                      *)

\* C6: upsample of an m x n block by (kv, kh) is an (m*kv) x (n*kh) block
\* whose sample (i, j) is the input sample (i div kv, j div kh), counting
\* from 0.
C6_UpsampleReplicates ==
    pc = "done" =>
        LET m == Len(uin.img)
            n == Len(uin.img[1])
        IN  /\ Len(uout) = m * uin.kv
            /\ \A i \in 0..(m * uin.kv - 1) :
                   /\ Len(uout[i + 1]) = n * uin.kh
                   /\ \A j \in 0..(n * uin.kh - 1) :
                          uout[i + 1][j + 1] = uin.img[i \div uin.kv + 1][j \div uin.kh + 1]

\* C6 witness: the block of test_upsample, enlarged by (2, 3) to the block the test expects
C6_Witness ==
    /\ pc = "done"
    /\ uin = [img |-> TestBlock, kv |-> 2, kh |-> 3]
    /\ uout = << << 1, 1, 1, 2, 2, 2 >>, << 1, 1, 1, 2, 2, 2 >>,
                 << 3, 3, 3, 4, 4, 4 >>, << 3, 3, 3, 4, 4, 4 >> >>

---------------------------------------------------------------------------
(* Claims about the colour conversion, checked under SpecColor.            *)

\* the channels of the claim for the sample triple s, in millionths
StatedR(s) == s[1] * Million + 1402000 * (s[3] - 128)
StatedG(s) == s[1] * Million - 344136 * (s[2] - 128) - 714136 * (s[3] - 128)
StatedB(s) == s[1] * Million + 1772000 * (s[2] - 128)

\* C7: the channels written for (Y, Cb, Cr) are R = Y + 1.402 (Cr - 128),
\* G = Y - 0.344136 (Cb - 128) - 0.714136 (Cr - 128) and
\* B = Y + 1.772 (Cb - 128), rounded to the nearest integer and clamped to
\* 0..255 (the result holds them in the order B, G, R).
C7_ColourConversion ==
    pc = "done" =>
        cout = << Clip(Round(StatedB(cin)), 0, 255),
                  Clip(Round(StatedG(cin)), 0, 255),
                  Clip(Round(StatedR(cin)), 0, 255) >>

=============================================================================
